---------------------------- MODULE Spec2Model ----------------------------
(***************************************************************************)
(* MD_MAXPanel: a pixel-addressable drawing surface over a zig-zag chain   *)
(* of 8x8 LED modules.  The model follows src/src/MD_MAXPanel.cpp (the     *)
(* rotation-aware implementation, lines 316-619) and the inline methods of *)
(* src/src/MD_MAXPanel.h.  The MD_MAX72XX driver is an external            *)
(* collaborator: its buffer is the set of lit (row, column) cells.         *)
(***************************************************************************)
EXTENDS Integers, Sequences, FiniteSets, TLC

VARIABLES
  xDevices,        \* _xDevices: modules across the panel
  yDevices,        \* _yDevices: modules up the panel
  rotatedDisplay,  \* _rotatedDisplay
  updateEnabled,   \* _updateEnabled
  bitmap,          \* driver buffer: the set of lit <<row, col>> cells
  drvUpdate,       \* driver's UPDATE control (TRUE = ON)
  display,         \* what the LEDs show: the buffer as of the last flush
  pc,              \* "idle" | "done" (the call returned) | "hung" (it never returns)
                   \* | "gone" (the panel was destroyed)
  call,            \* the drawing call made: [op, args, state]
  ret,             \* its return value; meaningful only when pc = "done"
  pre,             \* the driver buffer when the call was entered
  hits,            \* panel points <<x, y>> the call handed to the driver
  missed,          \* TRUE iff the call made a point access that was out of range
  flushes,         \* number of driver flushes the call caused
  supplied,        \* TRUE iff the caller handed its own MD_MAX72XX to the constructor
  killOnDestruct,  \* _killOnDestruct
  driverAlive,     \* TRUE until the MD_MAX72XX object is deleted
  steps,           \* calls the sketch has made and gone on from
  shown,           \* the display when the call in hand began
  fieldList,       \* cScoreboard::_fieldList, the head of the list first
  changed,         \* cScoreboard::_changed
  sbCall,          \* the last cScoreboard call and what it returned
  fieldsWas,       \* _fieldList when that call began
  charSpacing,     \* _charSpacing
  clock,           \* cScoreboard::_clock
  now,             \* millis()
  drawn,           \* the fields as update() last handed them to drawText
  clockWas,        \* _clock when the last cScoreboard call began
  changedWas       \* _changed when the last cScoreboard call began

vars == <<xDevices, yDevices, rotatedDisplay, updateEnabled, bitmap, drvUpdate,
          display, pc, call, ret, pre, hits, missed, flushes,
          supplied, killOnDestruct, driverAlive, steps, shown,
          fieldList, changed, sbCall, fieldsWas, charSpacing,
          clock, now, drawn, clockWas, changedWas>>

config == <<xDevices, yDevices, rotatedDisplay, updateEnabled, charSpacing>>

life == <<supplied, killOnDestruct, driverAlive, steps>>

board == <<fieldList, changed, sbCall, fieldsWas, clock, now, drawn, clockWas, changedWas>>

-----------------------------------------------------------------------------
(* Bounds of the model *)

\* modules per axis of the ordinary panels: 1..MaxDev by 1..MaxDev
MaxDev == 2
\* the tall panel is 1 by TallDev modules (getYMax() beyond 255)
TallDev == 33
\* how far past getXMax()/getYMax() the arguments reach
Margin == 1
\* arguments 0..Near are always tried, whatever the panel size
Near == 2
\* line, rectangle and polygon vertices take coordinates 0..LineMax
LineMax == 8
\* largest circle radius
MaxRadius == 4
\* the large panel is BigDev by BigDev modules, and its circles have radius
\* 0 .. BigRadius
BigDev == 3
BigRadius == 5
\* calls a sketch makes one after another: 1 + MaxCalls
MaxCalls == 1
\* scoreboard field identifiers are 0 .. MaxId
MaxId == 2
\* characters of a scoreboard field
FieldSize == 2
\* calls of scoreboard methods and delays in one run of the field methods, of
\* clockCreate and of the clocks
ShownOps == 3
SlotOps == 4
ClockOps == 6
\* half a clock period, in milliseconds
HalfPeriod == 500
\* the largest clock limit
MaxLimit == 1

-----------------------------------------------------------------------------
(* Program constants and integer widths *)

CHAR_SPACING_DEFAULT == 1
MAX_CLOCKS == 3
CLOCK_PERIOD == 1000
ROW_SIZE == 8
COL_SIZE == 8

UINT8_MOD  == 2^8
UINT16_MOD == 2^16
UINT16_MAX == UINT16_MOD - 1

\* conversion to uint8_t / uint16_t / int16_t
U8(v)  == v % UINT8_MOD
U16(v) == v % UINT16_MOD
I16(v) == LET u == v % UINT16_MOD IN IF u >= UINT16_MOD \div 2 THEN u - UINT16_MOD ELSE u

Min(a, b) == IF a < b THEN a ELSE b
\* A uint32_t is held as <<high, low>>, its two 16-bit halves, so that the
\* arithmetic modulo 2^32 of the code is exact.  u32 is the conversion of an
\* integer, negative ones included, as C converts an int to unsigned long.
Add32(a, b) ==
  <<(a[1] + b[1] + ((a[2] + b[2]) \div UINT16_MOD)) % UINT16_MOD, (a[2] + b[2]) % UINT16_MOD>>

Sub32(a, b) ==
  <<(a[1] - b[1] - (IF a[2] < b[2] THEN 1 ELSE 0)) % UINT16_MOD, (a[2] - b[2]) % UINT16_MOD>>

u32(n) ==
  IF n >= 0 THEN <<(n \div UINT16_MOD) % UINT16_MOD, n % UINT16_MOD>>
  ELSE Sub32(<<0, 0>>, <<((-n) \div UINT16_MOD) % UINT16_MOD, (-n) % UINT16_MOD>>)

Lt32(a, b) == a[1] < b[1] \/ (a[1] = b[1] /\ a[2] < b[2])

Le32(a, b) == a = b \/ Lt32(a, b)

Max(a, b) == IF a > b THEN a ELSE b

-----------------------------------------------------------------------------
(* 4.1 Panel geometry.  p is a panel: [xd, yd, rot] *)

Panel == [xd |-> xDevices, yd |-> yDevices, rot |-> rotatedDisplay]

\* getXMax() as it is without the rotation flag
getXMaxUnrotated(p) == U16((p.xd * COL_SIZE) - 1)

getXMax(p) ==
  IF p.rot THEN U16((p.yd * ROW_SIZE) - 1)
           ELSE U16((p.xd * COL_SIZE) - 1)

getYMax(p) ==
  IF p.rot THEN U16((p.xd * COL_SIZE) - 1)
           ELSE U16((p.yd * ROW_SIZE) - 1)

-----------------------------------------------------------------------------
(* 4.2 Address translator *)

Y2RowUnrotated(p, x, y) == U16(ROW_SIZE - (y % ROW_SIZE) - 1)

Y2Row(p, x, y) ==
  IF p.rot
    THEN LET x2 == U16(getXMax(p) - x)
         IN  U16(ROW_SIZE - (x2 % ROW_SIZE) - 1)
    ELSE U16(ROW_SIZE - (y % ROW_SIZE) - 1)

\* the column without the - 1 that keeps it inside the chain
X2ColNoMinus(p, x, y) ==
  IF p.rot
    THEN LET x2 == U16(getXMax(p) - x)
         IN  U16(((x2 \div ROW_SIZE) * (p.xd * COL_SIZE))
                 + (p.xd * COL_SIZE) - (y % (p.xd * COL_SIZE)))
    ELSE U16(((y \div ROW_SIZE) * (p.xd * COL_SIZE))
             + (p.xd * COL_SIZE) - (x % (p.xd * COL_SIZE)))

X2Col(p, x, y) ==
  IF p.rot
    THEN LET x2 == U16(getXMax(p) - x)
         IN  U16(((x2 \div ROW_SIZE) * (p.xd * COL_SIZE))
                 + (p.xd * COL_SIZE) - 1 - (y % (p.xd * COL_SIZE)))
    ELSE U16(((y \div ROW_SIZE) * (p.xd * COL_SIZE))
             + (p.xd * COL_SIZE) - 1 - (x % (p.xd * COL_SIZE)))

-----------------------------------------------------------------------------
(* The MD_MAX72XX driver, on a drawing context                             *)
(*   m = [bm, upd, disp, hits, missed, flushes, hang]                      *)
(* bm/upd/disp are the driver's buffer, UPDATE control and the LEDs; hits, *)
(* missed and flushes record what the running call did; hang is TRUE once  *)
(* the call has entered a loop it never leaves.                            *)

\* all cells of the chain of p.xd * p.yd modules
DrvCells(p) == (0 .. ROW_SIZE - 1) \X (0 .. (p.xd * p.yd * COL_SIZE) - 1)

DrvFlush(m) == [m EXCEPT !.disp = m.bm, !.flushes = @ + 1]

\* MD_MAX72XX::setPoint(r, c, state): [m, b]
DrvSetPoint(p, m, r, c, state) ==
  IF <<r, c>> \notin DrvCells(p)
    THEN [m |-> m, b |-> FALSE]
    ELSE LET w == [m EXCEPT !.bm = IF state THEN @ \cup {<<r, c>>} ELSE @ \ {<<r, c>>}]
         IN  [m |-> IF m.upd THEN DrvFlush(w) ELSE w, b |-> TRUE]

\* MD_MAX72XX::getPoint(r, c)
DrvGetPoint(p, m, r, c) == <<r, c>> \in DrvCells(p) /\ <<r, c>> \in m.bm

\* MD_MAX72XX::control(UPDATE, on)
DrvControlUpdate(m, on) ==
  LET w == [m EXCEPT !.upd = on] IN IF on THEN DrvFlush(w) ELSE w

\* MD_MAX72XX::update()
DrvUpdate(m) == DrvFlush(m)

\* MD_MAX72XX::clear(0, n)
DrvClear(m) ==
  LET w == [m EXCEPT !.bm = {}] IN IF m.upd THEN DrvFlush(w) ELSE w

-----------------------------------------------------------------------------
(* 4.3 Point access *)

\* setPoint with the range check on x alone
setPointXOnly(p, m, x, y, state) ==
  IF x > getXMax(p)
    THEN [m |-> [m EXCEPT !.missed = TRUE], b |-> FALSE]
    ELSE DrvSetPoint(p, [m EXCEPT !.hits = @ \cup {<<x, y>>}],
                     Y2Row(p, x, y), X2Col(p, x, y), state)

\* MD_MAXPanel::setPoint(x, y, state): [m, b]
setPoint(p, m, x, y, state) ==
  IF x > getXMax(p) \/ y > getYMax(p)
    THEN [m |-> [m EXCEPT !.missed = TRUE], b |-> FALSE]
    ELSE DrvSetPoint(p, [m EXCEPT !.hits = @ \cup {<<x, y>>}],
                     Y2Row(p, x, y), X2Col(p, x, y), state)

\* MD_MAXPanel::getPoint(x, y): [m, b]
getPoint(p, m, x, y) ==
  IF x > getXMax(p) \/ y > getYMax(p)
    THEN [m |-> [m EXCEPT !.missed = TRUE], b |-> FALSE]
    ELSE [m |-> [m EXCEPT !.hits = @ \cup {<<x, y>>}],
          b |-> DrvGetPoint(p, m, Y2Row(p, x, y), X2Col(p, x, y))]

\* MD_MAXPanel::update(bool state), on the context: the driver part
updateTo(m, state) == DrvControlUpdate(m, state)


-----------------------------------------------------------------------------
(* 4.4 Rasterizer.  Every operation maps a context m to [m, b]; ue is the  *)
(* panel's _updateEnabled.  A context that hangs runs no further statement.*)

\* b &= <call>: s is what the call left when run on the context r.m
And(r, s) == [m |-> s.m, b |-> r.b /\ s.b]

\* the statements every operation opens and closes with:
\*   _D->control(UPDATE, OFF); ... update(_updateEnabled); return(b);
Enter(m) == IF m.hang THEN m ELSE DrvControlUpdate(m, FALSE)
LeaveOn(m, ue) == IF m.hang THEN m ELSE updateTo(m, TRUE)
Leave(m, ue) == IF m.hang THEN m ELSE updateTo(m, ue)
\* a return without the closing update(_updateEnabled)
ReturnAsIs(m, ue, r) == r

Return(m, ue, r) ==
  IF m.hang THEN [m |-> m, b |-> TRUE] ELSE [m |-> Leave(r.m, ue), b |-> r.b]

\* a loop that never ends leaves the call hung
Loop(r, never) == [r EXCEPT !.m.hang = @ \/ never]

\* b &= setPoint(x, y, state)
Plot(p, r, x, y, state) ==
  IF r.m.hang THEN r ELSE And(r, setPoint(p, r.m, x, y, state))

\* MD_MAXPanel::update(): _D->update()
update(m) == DrvUpdate(m)

\* MD_MAXPanel::~MD_MAXPanel: if (_killOnDestruct) delete _D;
\* kill is _killOnDestruct, alive tells whether the driver object exists
DestructorAlways(kill, alive) == FALSE

Destructor(kill, alive) == IF kill THEN FALSE ELSE alive

\* what setPoint(q, true) leaves when it runs on an empty buffer
Lit(p, m, q) ==
  setPoint(p, [m EXCEPT !.bm = {}, !.hits = {}, !.missed = FALSE, !.flushes = 0],
           q[1], q[2], TRUE)

\* the context r after the writes done, all of them carrying state
Merge(r, done, state) ==
  LET cells == UNION {d.m.bm : d \in done}
      bm    == IF state THEN r.m.bm \cup cells ELSE r.m.bm \ cells
      fl    == {d \in done : d.m.flushes > 0}
  IN  [m |-> [r.m EXCEPT !.bm = bm,
                         !.hits = @ \cup UNION {d.m.hits : d \in done},
                         !.missed = @ \/ \E d \in done : d.m.missed,
                         !.disp = IF fl # {} THEN bm ELSE @,
                         !.flushes = @ + Cardinality(fl)],
       b |-> r.b /\ \A d \in done : d.b]

\* A loop whose every iteration is b &= setPoint(x, y, state) for the points pts.
\* The writes all carry the same state, so they commute, and the loop leaves
\* what setPoint leaves for each point on its own: the cells it writes are the
\* cells setPoint lights on an empty buffer.
PlotAll(p, r, pts, state) ==
  IF r.m.hang THEN r ELSE Merge(r, {Lit(p, r.m, q) : q \in pts}, state)

\* MD_MAXPanel::drawHLine(y, x1, x2, state):
\*   for (uint16_t i = x1; i <= x2; i++) b &= setPoint(i, y, state);
\* With x2 = 65535 the test i <= x2 never fails: i wraps to 0 and the loop visits
\* every uint16_t value for ever.  Once i is past getXMax() every further
\* setPoint(i, y) fails alike, so the points past last stand for one another.
drawHLine(p, ue, m, y, x1, x2, state) ==
  LET a     == IF x1 > x2 THEN x2 ELSE x1
      b     == IF x1 > x2 THEN x1 ELSE x2
      never == b = UINT16_MAX
      first == IF never THEN 0 ELSE a
      last  == Min(b, getXMax(p) + 1)
  IN  Return(m, ue, Loop(PlotAll(p, [m |-> Enter(m), b |-> TRUE],
                                 {<<i, y>> : i \in first .. last}, state), never))

\* MD_MAXPanel::drawVLine(x, y1, y2, state):
\*   for (uint8_t i = y1; i <= y2; i++) b &= setPoint(x, i, state);
\* The swap goes through uint8_t t and the counter i is uint8_t: with y2 >= 255
\* the test i <= y2 never fails and the loop visits every uint8_t value for ever.
\* Once i is past getYMax() every further setPoint(x, i) fails alike, so the
\* points past last stand for one another.
drawVLine(p, ue, m, x, y1, y2, state) ==
  LET a     == IF y1 > y2 THEN y2 ELSE y1
      b     == IF y1 > y2 THEN U8(y1) ELSE y2
      never == b >= UINT8_MOD - 1
      first == IF never THEN 0 ELSE U8(a)
      last  == Min(Min(b, UINT8_MOD - 1), getYMax(p) + 1)
  IN  Return(m, ue, Loop(PlotAll(p, [m |-> Enter(m), b |-> TRUE],
                                 {<<x, i>> : i \in first .. last}, state), never))

\* The columns after the first of clear(x1, y1, x2, y2).  f is what the first
\* drawVLine left; if it never returned, nothing follows.  The other columns
\* are cleared by one drawVLine each, which write disjoint cells with the same
\* state, and every one of them flushes when auto-update is on.
ClearRest(p, ue, f, cols, y1, y2, never) ==
  IF f.m.hang THEN f
  ELSE Loop([Merge(f, {drawVLine(p, ue, [f.m EXCEPT !.bm = {}, !.hits = {},
                                                   !.missed = FALSE, !.flushes = 0],
                                 i, y1, y2, TRUE) : i \in cols}, FALSE)
               EXCEPT !.m.flushes = f.m.flushes + (IF ue THEN Cardinality(cols) ELSE 0)],
            never)

\* MD_MAXPanel::clear(x1, y1, x2, y2):
\*   for (uint8_t i = x1; i <= x2; i++) drawVLine(i, y1, y2, false);
\* i starts at x1 cut to 8 bits and is compared with the 16-bit x2: with
\* x2 >= 255 the test never fails and i goes round 0..255 for ever.  Columns
\* past getXMax() all fail alike, so they stand for one another.
clear(p, ue, m, x1, y1, x2, y2) ==
  LET i0    == U8(x1)
      never == x2 >= UINT8_MOD - 1
      cols  == IF never THEN 0 .. UINT8_MOD - 1 ELSE i0 + 1 .. x2
  IN  IF i0 > x2 THEN [m |-> m, b |-> TRUE]
      ELSE ClearRest(p, ue, drawVLine(p, ue, m, i0, y1, y2, FALSE),
                     {Min(i, getXMax(p) + 1) : i \in cols}, y1, y2, never)

\* C's integer division, which truncates toward zero
CDiv(a, b) == IF a >= 0 THEN a \div b ELSE -((-a) \div b)

RECURSIVE LineLoop(_, _, _, _, _, _, _, _, _, _, _)

\* One turn of the for (;;) loop of drawLine after its setPoint left q; the loop
\* hangs when a turn moves neither x1 nor y1 short of the end point
LineStep(p, q, x1, y1, err, x2, y2, dx, dy, sy, state) ==
  LET e2   == err
      stpx == e2 > -dx
      stpy == e2 < dy
      errx == IF stpx THEN I16(err - dy) ELSE err
      nx   == IF stpx THEN U16(x1 + 1) ELSE x1
      erry == IF stpy THEN I16(errx + dx) ELSE errx
      ny   == IF stpy THEN U16(y1 + sy) ELSE y1
  IN  IF x1 = x2 /\ y1 = y2 THEN q
      ELSE IF ~stpx /\ ~stpy THEN Loop(q, TRUE)
      ELSE LineLoop(p, q, nx, ny, erry, x2, y2, dx, dy, sy, state)

\* a loop that leaves at the end point before it has plotted it
LineLoopBare(p, r, x1, y1, err, x2, y2, dx, dy, sy, state) ==
  LineStep(p, IF x1 = x2 /\ y1 = y2 THEN r ELSE Plot(p, r, x1, y1, state),
           x1, y1, err, x2, y2, dx, dy, sy, state)

\* the for (;;) loop of drawLine on (x1, y1, err)
LineLoop(p, r, x1, y1, err, x2, y2, dx, dy, sy, state) ==
  LineStep(p, Plot(p, r, x1, y1, state), x1, y1, err, x2, y2, dx, dy, sy, state)

\* the body of drawLine once the direction is settled
LineFrom(p, ue, m, x1, y1, x2, y2, state) ==
  LET dx  == I16(x2 - x1)
      dy0 == I16(y2 - y1)
      dy  == IF dy0 < 0 THEN I16(-dy0) ELSE dy0
      sy  == IF y1 < y2 THEN 1 ELSE -1
      err == I16(CDiv(IF dx > dy THEN dx ELSE -dy, 2))
  IN  Return(m, ue, LineLoop(p, [m |-> Enter(m), b |-> TRUE],
                             x1, y1, err, x2, y2, dx, dy, sy, state))

\* a swap of x1 and x2 that leaves y1 and y2 as they are
drawLineSwapX(p, ue, m, x1, y1, x2, y2, state) ==
  LET sw == x1 > x2
  IN  LineFrom(p, ue, m, IF sw THEN x2 ELSE x1, y1, IF sw THEN x1 ELSE x2, y2, state)

\* MD_MAXPanel::drawLine(x1, y1, x2, y2, state): the end points are swapped
\* when x1 > x2
drawLine(p, ue, m, x1, y1, x2, y2, state) ==
  LET sw == x1 > x2
  IN  LineFrom(p, ue, m, IF sw THEN x2 ELSE x1, IF sw THEN y2 ELSE y1,
                         IF sw THEN x1 ELSE x2, IF sw THEN y1 ELSE y2, state)

\* b &= drawHLine(...), b &= drawVLine(...), b &= drawLine(...)
AndHLine(p, ue, r, y, x1, x2, state) == And(r, drawHLine(p, ue, r.m, y, x1, x2, state))
AndVLine(p, ue, r, x, y1, y2, state) == And(r, drawVLine(p, ue, r.m, x, y1, y2, state))
AndLine(p, ue, r, x1, y1, x2, y2, state) ==
  And(r, drawLine(p, ue, r.m, x1, y1, x2, y2, state))

\* a rectangle without its side at x2
drawRectangleOpen(p, ue, m, x1, y1, x2, y2, state) ==
  LET r0 == [m |-> Enter(m), b |-> TRUE]
      r1 == AndHLine(p, ue, r0, y1, x1, x2, state)
      r2 == AndHLine(p, ue, r1, y2, x1, x2, state)
      r3 == AndVLine(p, ue, r2, x1, y1, y2, state)
  IN  Return(m, ue, r3)

\* MD_MAXPanel::drawRectangle(x1, y1, x2, y2, state)
drawRectangle(p, ue, m, x1, y1, x2, y2, state) ==
  LET r0 == [m |-> Enter(m), b |-> TRUE]
      r1 == AndHLine(p, ue, r0, y1, x1, x2, state)
      r2 == AndHLine(p, ue, r1, y2, x1, x2, state)
      r3 == AndVLine(p, ue, r2, x1, y1, y2, state)
      r4 == AndVLine(p, ue, r3, x2, y1, y2, state)
  IN  Return(m, ue, r4)

\* MD_MAXPanel::drawQuadrilateral(x1, y1, x2, y2, x3, y3, x4, y4, state)
drawQuadrilateral(p, ue, m, x1, y1, x2, y2, x3, y3, x4, y4, state) ==
  LET r0 == [m |-> Enter(m), b |-> TRUE]
      r1 == AndLine(p, ue, r0, x1, y1, x2, y2, state)
      r2 == AndLine(p, ue, r1, x2, y2, x3, y3, state)
      r3 == AndLine(p, ue, r2, x3, y3, x4, y4, state)
      r4 == AndLine(p, ue, r3, x4, y4, x1, y1, state)
  IN  Return(m, ue, r4)

\* a triangle without the edge back to the first vertex
drawTriangleOpen(p, ue, m, x1, y1, x2, y2, x3, y3, state) ==
  LET r0 == [m |-> Enter(m), b |-> TRUE]
      r1 == AndLine(p, ue, r0, x1, y1, x2, y2, state)
      r2 == AndLine(p, ue, r1, x2, y2, x3, y3, state)
  IN  Return(m, ue, r2)

\* MD_MAXPanel::drawTriangle(x1, y1, x2, y2, x3, y3, state)
drawTriangle(p, ue, m, x1, y1, x2, y2, x3, y3, state) ==
  LET r0 == [m |-> Enter(m), b |-> TRUE]
      r1 == AndLine(p, ue, r0, x1, y1, x2, y2, state)
      r2 == AndLine(p, ue, r1, x2, y2, x3, y3, state)
      r3 == AndLine(p, ue, r2, x3, y3, x1, y1, state)
  IN  Return(m, ue, r3)

\* circle points without the reflection (xc - y, yc - x)
drawCirclePointsSeven(p, r, xc, yc, x, y, state) ==
  LET r0 == [m |-> r.m, b |-> TRUE]
      r1 == Plot(p, r0, U16(xc + x), U16(yc + y), state)
      r2 == Plot(p, r1, U16(xc - x), U16(yc + y), state)
      r3 == Plot(p, r2, U16(xc + x), U16(yc - y), state)
      r4 == Plot(p, r3, U16(xc - x), U16(yc - y), state)
      r5 == Plot(p, r4, U16(xc + y), U16(yc + x), state)
      r6 == Plot(p, r5, U16(xc - y), U16(yc + x), state)
      r7 == Plot(p, r6, U16(xc + y), U16(yc - x), state)
  IN  And(r, r7)

\* MD_MAXPanel::drawCirclePoints(xc, yc, x, y, state), called as
\* b &= drawCirclePoints(...)
drawCirclePoints(p, r, xc, yc, x, y, state) ==
  LET r0 == [m |-> r.m, b |-> TRUE]
      r1 == Plot(p, r0, U16(xc + x), U16(yc + y), state)
      r2 == Plot(p, r1, U16(xc - x), U16(yc + y), state)
      r3 == Plot(p, r2, U16(xc + x), U16(yc - y), state)
      r4 == Plot(p, r3, U16(xc - x), U16(yc - y), state)
      r5 == Plot(p, r4, U16(xc + y), U16(yc + x), state)
      r6 == Plot(p, r5, U16(xc - y), U16(yc + x), state)
      r7 == Plot(p, r6, U16(xc + y), U16(yc - x), state)
      r8 == Plot(p, r7, U16(xc - y), U16(yc - x), state)
  IN  And(r, r8)

\* the loop with pk taken from the x already incremented
RECURSIVE CircleLoopNewX(_, _, _, _, _, _, _, _)
CircleLoopNewX(p, r, xc, yc, x, y, pk, state) ==
  LET ny  == IF pk <= 0 THEN y ELSE y - 1
      npk == IF pk <= 0 THEN pk + (4 * (x + 1)) + 6 ELSE pk + (4 * ((x + 1) - y)) + 10
  IN  IF ~(x < y) THEN r
      ELSE CircleLoopNewX(p, drawCirclePoints(p, r, xc, yc, x + 1, ny, state),
                          xc, yc, x + 1, ny, npk, state)

\* the while (x < y) loop of drawCircle: x is incremented, y is decremented
\* when pk > 0, and the points of the new (x, y) are drawn
RECURSIVE CircleLoop(_, _, _, _, _, _, _, _)
CircleLoop(p, r, xc, yc, x, y, pk, state) ==
  LET ny  == IF pk <= 0 THEN y ELSE y - 1
      npk == IF pk <= 0 THEN pk + (4 * x) + 6 ELSE pk + (4 * (x - y)) + 10
  IN  IF ~(x < y) THEN r
      ELSE CircleLoop(p, drawCirclePoints(p, r, xc, yc, x + 1, ny, state),
                      xc, yc, x + 1, ny, npk, state)

\* MD_MAXPanel::drawCircle(xc, yc, r, state): b starts out false
drawCircle(p, ue, m, xc, yc, rad, state) ==
  LET r0 == [m |-> Enter(m), b |-> FALSE]
      r1 == drawCirclePoints(p, r0, xc, yc, 0, rad, state)
  IN  Return(m, ue, CircleLoop(p, r1, xc, yc, 0, rad, 3 - (2 * rad), state))

-----------------------------------------------------------------------------
(* The panels and the arguments tried *)

Geometries == (1 .. MaxDev) \X (1 .. MaxDev)
TallGeometries == {<<1, TallDev>>}
BigGeometries == {<<BigDev, BigDev>>}
SeqGeometries == {<<1, 1>>}

\* a drawing already on the LEDs: one diagonal of every module lit
Stripes(p) == {c \in DrvCells(p) : c[2] % COL_SIZE = c[1]}

\* arguments at the ends of the uint8_t and uint16_t ranges
Far == {UINT8_MOD - 1, UINT8_MOD, UINT16_MAX}

\* coordinates tried on an axis whose largest valid coordinate is max: the low
\* ones, the ones around max, and the ones around the largest uint8_t value
Sel(max) ==
  {v \in 0 .. max + Margin :
      v <= Near \/ v >= max - 1 \/ (v >= UINT8_MOD - 2 /\ v <= UINT8_MOD)}

\* the same with the far arguments
SelFar(max) == Sel(max) \cup Far

\* every coordinate of an ordinary panel, and Sel on a larger one
All(max) ==
  {v \in 0 .. max + Margin : v <= (MaxDev * ROW_SIZE) + Margin} \cup Sel(max)

\* vertex coordinates of lines
Low(max) == {v \in Sel(max) : v <= LineMax}

\* the coordinate a horizontal or vertical line keeps
Ends(max) == {0, Near, max, max + Margin}

\* corner and centre coordinates of rectangles and circles
Few(max) == {v \in Ends(max) : v <= LineMax}

\* centre coordinates of the circles of the large panel: the corners and 16,
\* the centre of the circle drawCircle(16, 16, 5)
Centres(max) == {0, 16, max}

\* vertices of triangles and quadrilaterals
Vertices(p) ==
  {v \in {<<0, 1>>, <<Near, 0>>, <<getXMax(p) + Margin, 2>>, <<1, Near + 1>>,
          <<Near + 1, getYMax(p)>>, <<getXMax(p), getYMax(p) + Margin>>} :
     v[1] <= LineMax /\ v[2] <= LineMax}
Corners(p) == {v \in Vertices(p) : v[1] + v[2] > 1}

\* the context a call made now starts on
Ctx == [bm |-> bitmap, upd |-> drvUpdate, disp |-> display,
        hits |-> {}, missed |-> FALSE, flushes |-> 0, hang |-> FALSE]

\* the _clock array of the sketch's cScoreboard sb, an object of static storage:
\* zero before the constructor, which sets every f to nullptr.  used stands
\* for f != nullptr, f is the id of the field f points to.
NoClocks ==
  [i \in 0 .. MAX_CLOCKS - 1 |->
     [used |-> FALSE, f |-> 0, timeLimit |-> u32(0), timeLast |-> u32(0),
      timeToGo |-> u32(0), countUp |-> FALSE, stopped |-> FALSE]]

\* time that passes between two calls
Delays == {HalfPeriod, CLOCK_PERIOD}

\* limits given to clockCreate
Limits == 0 .. MaxLimit

\* the int8_t values of delta
Deltas == -(UINT8_MOD \div 2) .. (UINT8_MOD \div 2) - 1

\* the deltas processUI gives
Steps == {-1, 1}

\* field values around 0, the largest delta, 2^16, 2^31 and 2^32
Values ==
  {<<h, l>> : h \in {0, 1, UINT16_MOD \div 2, UINT16_MOD - 1},
              l \in {0, 1, UINT8_MOD \div 2 - 1, UINT8_MOD \div 2, UINT8_MOD \div 2 + 1,
                      UINT16_MOD - 1}}

\* the ids given to the methods once setup() has run: the field of the clock,
\* and an id that no field has
Ids == {0, MaxId}

NoBoardCall == [op |-> "none", args |-> <<>>, ret |-> FALSE]

NoCall == [op |-> "none", args |-> <<>>, state |-> FALSE]

-----------------------------------------------------------------------------
(* The state machine *)

\* MD_MAXPanel::MD_MAXPanel and begin(): a panel with a geometry of G, its driver
\* handed in by the caller (supplied) or made by the constructor, and either
\* nothing or the stripes drawn; beside it a cScoreboard with no field
\* the program once the panel and the scoreboard are constructed; sb is the
\* scoreboard's list, _changed flag and clocks, t is millis()
Setup(G, S, sb, t, d) ==
  /\ \E g \in G : xDevices = g[1] /\ yDevices = g[2]
  /\ rotatedDisplay = FALSE
  /\ updateEnabled = TRUE
  /\ charSpacing = CHAR_SPACING_DEFAULT
  /\ bitmap \in {{}, Stripes([xd |-> xDevices, yd |-> yDevices, rot |-> FALSE])}
  /\ drvUpdate = TRUE
  /\ display = bitmap
  /\ pc = "idle"
  /\ call = NoCall
  /\ ret = FALSE
  /\ pre = bitmap
  /\ hits = {}
  /\ missed = FALSE
  /\ flushes = 0
  /\ supplied \in S
  /\ killOnDestruct = ~supplied
  /\ driverAlive = TRUE
  /\ steps = 0
  /\ shown = display
  /\ fieldList = sb.list
  /\ changed = sb.changed
  /\ sbCall = NoBoardCall
  /\ fieldsWas = sb.list
  /\ clock = sb.clock
  /\ now = t
  /\ drawn = d
  /\ clockWas = sb.clock
  /\ changedWas = sb.changed

\* cScoreboard(mp): no field, nothing to show, every clock slot empty
NoBoard == [list |-> <<>>, changed |-> FALSE, clock |-> NoClocks]

Constructed(G, S) == Setup(G, S, NoBoard, u32(0), <<>>)

\* the panel made by the constructors that create the driver themselves
InitOn(G) == Constructed(G, {FALSE})

\* the call op(args, state) ran on Ctx and left r = [m, b]
Finish(op, args, state, r) ==
  /\ bitmap' = r.m.bm
  /\ drvUpdate' = r.m.upd
  /\ display' = r.m.disp
  /\ hits' = r.m.hits
  /\ missed' = r.m.missed
  /\ flushes' = r.m.flushes
  /\ pc' = IF r.m.hang THEN "hung" ELSE "done"
  /\ ret' = (~r.m.hang /\ r.b)
  /\ call' = [op |-> op, args |-> args, state |-> state]
  /\ pre' = bitmap
  /\ shown' = display
  /\ UNCHANGED <<config, life, board>>

\* the rotation toggle
SetRotation ==
  /\ pc = "idle"
  /\ rotatedDisplay' = ~rotatedDisplay
  /\ UNCHANGED <<xDevices, yDevices, updateEnabled, charSpacing, bitmap, drvUpdate,
                 display, pc, call, ret, pre, hits, missed, flushes, life, shown, board>>

\* MD_MAXPanel::update(bool state)
UpdateBool ==
  /\ pc = "idle"
  /\ \E state \in BOOLEAN :
       LET m == updateTo(Ctx, state)
       IN  /\ updateEnabled' = state
           /\ drvUpdate' = m.upd
           /\ display' = m.disp
  /\ UNCHANGED <<xDevices, yDevices, rotatedDisplay, charSpacing, bitmap,
                 pc, call, ret, pre, hits, missed, flushes, life, shown, board>>

\* MD_MAXPanel::setCharSpacing(spacing)
SetCharSpacing ==
  /\ pc = "idle"
  /\ \E spacing \in {0, Near} : charSpacing' = spacing
  /\ UNCHANGED <<xDevices, yDevices, rotatedDisplay, updateEnabled, bitmap, drvUpdate,
                 display, pc, call, ret, pre, hits, missed, flushes, life, shown, board>>

SetPoint ==
  /\ pc = "idle"
  /\ \E x \in All(getXMax(Panel)), y \in All(getYMax(Panel)), state \in BOOLEAN :
       \E r \in {setPoint(Panel, Ctx, x, y, state)} :
         Finish("setPoint", <<x, y>>, state, r)

GetPoint ==
  /\ pc = "idle"
  /\ \E x \in All(getXMax(Panel)), y \in All(getYMax(Panel)) :
       \E r \in {getPoint(Panel, Ctx, x, y)} :
         Finish("getPoint", <<x, y>>, FALSE, r)

DrawHLine ==
  /\ pc = "idle"
  /\ \E y \in Ends(getYMax(Panel)), state \in BOOLEAN,
        x1, x2 \in SelFar(getXMax(Panel)) :
       \E r \in {drawHLine(Panel, updateEnabled, Ctx, y, x1, x2, state)} :
         Finish("drawHLine", <<y, x1, x2>>, state, r)

DrawVLine ==
  /\ pc = "idle"
  /\ \E x \in Ends(getXMax(Panel)), state \in BOOLEAN,
        y1, y2 \in SelFar(getYMax(Panel)) :
       \E r \in {drawVLine(Panel, updateEnabled, Ctx, x, y1, y2, state)} :
         Finish("drawVLine", <<x, y1, y2>>, state, r)

DrawLine ==
  /\ pc = "idle"
  /\ \E x1, x2 \in Low(getXMax(Panel)), y1, y2 \in Low(getYMax(Panel)),
        state \in BOOLEAN :
       \E r \in {drawLine(Panel, updateEnabled, Ctx, x1, y1, x2, y2, state)} :
         Finish("drawLine", <<x1, y1, x2, y2>>, state, r)

DrawRectangle ==
  /\ pc = "idle"
  /\ \E x1, x2 \in Few(getXMax(Panel)),
        y1, y2 \in Few(getYMax(Panel)) \cup {UINT8_MOD - 1, UINT8_MOD},
        state \in BOOLEAN :
       \E r \in {drawRectangle(Panel, updateEnabled, Ctx, x1, y1, x2, y2, state)} :
         Finish("drawRectangle", <<x1, y1, x2, y2>>, state, r)

DrawTriangle ==
  /\ pc = "idle"
  /\ \E v1, v2, v3 \in Vertices(Panel), state \in BOOLEAN :
       \E r \in {drawTriangle(Panel, updateEnabled, Ctx,
                              v1[1], v1[2], v2[1], v2[2], v3[1], v3[2], state)} :
         Finish("drawTriangle", <<v1[1], v1[2], v2[1], v2[2], v3[1], v3[2]>>, state, r)

DrawQuadrilateral ==
  /\ pc = "idle"
  /\ \E v1, v2, v3, v4 \in Corners(Panel), state \in BOOLEAN :
       \E r \in {drawQuadrilateral(Panel, updateEnabled, Ctx, v1[1], v1[2], v2[1], v2[2],
                                   v3[1], v3[2], v4[1], v4[2], state)} :
         Finish("drawQuadrilateral",
                <<v1[1], v1[2], v2[1], v2[2], v3[1], v3[2], v4[1], v4[2]>>, state, r)

DrawCircle ==
  /\ pc = "idle"
  /\ \E xc \in Few(getXMax(Panel)), yc \in Few(getYMax(Panel)),
        rad \in 0 .. MaxRadius, state \in BOOLEAN :
       \E r \in {drawCircle(Panel, updateEnabled, Ctx, xc, yc, rad, state)} :
         Finish("drawCircle", <<xc, yc, rad>>, state, r)

Next ==
  \/ SetRotation
  \/ UpdateBool
  \/ SetPoint
  \/ GetPoint
  \/ DrawHLine
  \/ DrawVLine
  \/ DrawLine
  \/ DrawRectangle
  \/ DrawTriangle
  \/ DrawQuadrilateral
  \/ DrawCircle

Init == InitOn(Geometries)

Spec == Init /\ [][Next]_vars

\* setPoint and getPoint alone, on every point of the ordinary panels
CellInit == InitOn(Geometries)

CellNext ==
  \/ SetRotation
  \/ SetPoint
  \/ GetPoint

CellSpec == CellInit /\ [][CellNext]_vars

\* drawCircle on the large panel
DrawBigCircle ==
  /\ pc = "idle"
  /\ \E xc \in Centres(getXMax(Panel)), yc \in Centres(getYMax(Panel)),
        rad \in 0 .. BigRadius, state \in BOOLEAN :
       \E r \in {drawCircle(Panel, updateEnabled, Ctx, xc, yc, rad, state)} :
         Finish("drawCircle", <<xc, yc, rad>>, state, r)

BigInit == InitOn(BigGeometries)

BigNext ==
  \/ SetRotation
  \/ UpdateBool
  \/ DrawBigCircle

BigSpec == BigInit /\ [][BigNext]_vars

\* MD_MAXPanel::clear(x1, y1, x2, y2)
Clear ==
  /\ pc = "idle"
  /\ \E x1, x2 \in Ends(getXMax(Panel)), y1, y2 \in Ends(getYMax(Panel)) :
       \E r \in {clear(Panel, updateEnabled, Ctx, x1, y1, x2, y2)} :
         Finish("clear", <<x1, y1, x2, y2>>, FALSE, r)

\* the tall panel and the operations that walk its long axis
TallInit == InitOn(TallGeometries)

TallNext ==
  \/ SetRotation
  \/ SetPoint
  \/ DrawHLine
  \/ DrawVLine
  \/ Clear

TallSpec == TallInit /\ [][TallNext]_vars

\* cScoreboard::fieldType_t
fieldType_t == {"NUMBER", "MMMSS", "MMSS", "SS"}

\* cScoreboard::findField(id): the place in the list of the first field with
\* this id, 0 (nullptr) if there is none
findField(list, id) ==
  IF \E i \in 1 .. Len(list) : list[i].id = id
  THEN CHOOSE i \in 1 .. Len(list) :
         list[i].id = id /\ \A j \in 1 .. i - 1 : list[j].id # id
  ELSE 0

\* cScoreboard::fieldCreate(id, x, y, type, size, leadZero) on the list and the
\* _changed flag chg; got tells whether new(field_t) gave an object.  The
\* method declares field_t* f = nullptr, and inside the if a second f that
\* receives the new object: the f of return(f != nullptr) is the first one.
fieldCreate(list, chg, id, x, y, type, size, leadZero, got) ==
  LET f    == 0
      made == findField(list, id) = 0 /\ got
  IN  [list    |-> IF made
                   THEN <<[id |-> id, type |-> type, x |-> x, y |-> y, value |-> u32(0),
                           leadZero |-> leadZero, size |-> size]>> \o list
                   ELSE list,
       changed |-> (chg \/ made),
       b       |-> (f # 0)]

\* cScoreboard::fieldSetLeadZero(id, state) on the list and the _changed flag
fieldSetLeadZero(list, chg, id, state) ==
  LET f == findField(list, id)
  IN  [list    |-> IF f # 0 THEN [list EXCEPT ![f].leadZero = state] ELSE list,
       changed |-> (chg \/ f # 0),
       b       |-> (f # 0)]

\* cScoreboard::fieldSetSize(id, size)
fieldSetSize(list, chg, id, size) ==
  LET f == findField(list, id)
  IN  [list    |-> IF f # 0 THEN [list EXCEPT ![f].size = size] ELSE list,
       changed |-> (chg \/ f # 0),
       b       |-> (f # 0)]

\* the new value of fieldValueAdd with no test of delta against the value
AddBare(v, delta) == Add32(v, u32(delta))

\* the value fieldValueAdd(id, delta) leaves in a field of value v: delta is an
\* int8_t, abs(delta) is compared with the uint32_t value, and value += delta
\* adds delta converted to uint32_t
AddClamped(v, delta) ==
  IF delta < 0 /\ Lt32(v, u32(IF delta < 0 THEN -delta ELSE delta))
  THEN u32(0)
  ELSE Add32(v, u32(delta))

\* cScoreboard::fieldValueAdd(id, delta)
fieldValueAdd(list, chg, id, delta) ==
  LET f == findField(list, id)
  IN  [list    |-> IF f # 0 THEN [list EXCEPT ![f].value = AddClamped(@, delta)] ELSE list,
       changed |-> (chg \/ f # 0)]

\* fieldSetValue that leaves _changed alone
SetValueQuiet(list, chg, id, v) ==
  [list    |-> IF findField(list, id) # 0
               THEN [list EXCEPT ![findField(list, id)].value = v] ELSE list,
   changed |-> chg]

\* cScoreboard::fieldSetValue(id, v)
fieldSetValue(list, chg, id, v) ==
  LET f == findField(list, id)
  IN  [list    |-> IF f # 0 THEN [list EXCEPT ![f].value = v] ELSE list,
       changed |-> (chg \/ f # 0)]

\* cScoreboard::findClock(id): the first slot whose field has this id, or -1
findClock(clk, id) ==
  IF \E i \in 0 .. MAX_CLOCKS - 1 : clk[i].used /\ clk[i].f = id
  THEN CHOOSE i \in 0 .. MAX_CLOCKS - 1 :
         /\ clk[i].used /\ clk[i].f = id
         /\ \A j \in 0 .. i - 1 : ~(clk[j].used /\ clk[j].f = id)
  ELSE -1

\* clockReset that always stops the clock
ResetStopped(c, t, maintainRunMode) ==
  [c EXCEPT !.timeToGo = u32(CLOCK_PERIOD), !.stopped = TRUE]

\* what clockReset leaves of the clock it found
ResetClock(c, t, maintainRunMode) ==
  [c EXCEPT !.timeToGo = u32(CLOCK_PERIOD),
            !.timeLast = IF maintainRunMode THEN t ELSE @,
            !.stopped  = IF maintainRunMode THEN @ ELSE TRUE]

\* cScoreboard::clockReset(fieldId, maintainRunMode) at millis() = t on the
\* scoreboard sb = [list, changed, clock]
clockReset(sb, t, fieldId, maintainRunMode) ==
  LET idx == findClock(sb.clock, fieldId)
  IN  IF idx = -1 THEN sb
      ELSE [list    |-> [sb.list EXCEPT ![findField(sb.list, sb.clock[idx].f)].value =
                           IF sb.clock[idx].countUp THEN u32(0) ELSE sb.clock[idx].timeLimit],
            changed |-> TRUE,
            clock   |-> [sb.clock EXCEPT ![idx] = ResetClock(@, t, maintainRunMode)]]

\* the slot of a clockCreate that does not look for an empty one
FirstSlot(clk) == 0

\* the slot clockCreate takes: the first empty one, MAX_CLOCKS when none is
FreeSlot(clk) ==
  IF \E i \in 0 .. MAX_CLOCKS - 1 : ~clk[i].used
  THEN CHOOSE i \in 0 .. MAX_CLOCKS - 1 : ~clk[i].used /\ \A j \in 0 .. i - 1 : clk[j].used
  ELSE MAX_CLOCKS

\* cScoreboard::clockCreate(fieldId, limit, countUp); b is the value returned
clockCreate(sb, t, fieldId, limit, countUp) ==
  LET idx == FreeSlot(sb.clock)
  IN  IF idx >= MAX_CLOCKS THEN [sb |-> sb, b |-> FALSE]
      ELSE IF findField(sb.list, fieldId) = 0 THEN [sb |-> sb, b |-> FALSE]
      ELSE [sb |-> clockReset([sb EXCEPT !.clock[idx] =
                                 [@ EXCEPT !.used = TRUE, !.f = fieldId, !.timeLimit = limit,
                                           !.countUp = countUp, !.stopped = TRUE]],
                              t, fieldId, FALSE),
            b  |-> TRUE]

\* cScoreboard::clockStart(fieldId)
clockStart(sb, t, fieldId) ==
  LET idx == findClock(sb.clock, fieldId)
  IN  IF idx = -1 THEN sb
      ELSE [sb EXCEPT !.clock[idx] = [@ EXCEPT !.timeLast = t, !.stopped = FALSE]]

\* cScoreboard::clockStop(fieldId)
clockStop(sb, t, fieldId) ==
  LET idx == findClock(sb.clock, fieldId)
  IN  IF idx = -1 THEN sb
      ELSE [sb EXCEPT !.clock[idx] =
              [@ EXCEPT !.timeToGo = Sub32(@, Sub32(t, sb.clock[idx].timeLast)),
                        !.stopped = TRUE]]

\* cScoreboard::clockToggle(fieldId)
clockToggle(sb, t, fieldId) ==
  LET idx == findClock(sb.clock, fieldId)
  IN  IF idx = -1 THEN sb
      ELSE IF sb.clock[idx].stopped THEN clockStart(sb, t, fieldId)
      ELSE clockStop(sb, t, fieldId)

\* one tick of clock i in processClocks, v being the new value of its field
Tick(sb, t, i, f, v) ==
  [list    |-> [sb.list EXCEPT ![f].value = v],
   changed |-> TRUE,
   clock   |-> [sb.clock EXCEPT ![i] =
                  [@ EXCEPT !.stopped  = (sb.clock[i].countUp /\ v = sb.clock[i].timeLimit)
                                         \/ (~sb.clock[i].countUp /\ v = u32(0)),
                            !.timeToGo = Add32(u32(CLOCK_PERIOD),
                                               Add32(Sub32(sb.clock[i].timeLast, t), @)),
                            !.timeLast = t]]]

\* the body of the loop of processClocks for slot i
ProcessClock(sb, t, i) ==
  IF sb.clock[i].used /\ ~sb.clock[i].stopped
     /\ Le32(sb.clock[i].timeToGo, Sub32(t, sb.clock[i].timeLast))
  THEN Tick(sb, t, i, findField(sb.list, sb.clock[i].f),
            Add32(sb.list[findField(sb.list, sb.clock[i].f)].value,
                  u32(IF sb.clock[i].countUp THEN 1 ELSE -1)))
  ELSE sb

RECURSIVE ProcessFrom(_, _, _)
ProcessFrom(sb, t, i) ==
  IF i >= MAX_CLOCKS THEN sb ELSE ProcessFrom(ProcessClock(sb, t, i), t, i + 1)

\* cScoreboard::processClocks() at millis() = t
processClocks(sb, t) == ProcessFrom(sb, t, 0)

\* cScoreboard::update(bForce) at millis() = t: the scoreboard it leaves, and
\* whether it formatted every field, drew it and updated the panel
Redraw(sb, t, bForce) ==
  [sb     |-> IF processClocks(sb, t).changed \/ bForce
              THEN [processClocks(sb, t) EXCEPT !.changed = FALSE]
              ELSE processClocks(sb, t),
   redraw |-> (processClocks(sb, t).changed \/ bForce)]

\* what a cScoreboard call leaves of the panel when it draws nothing
panel == <<config, bitmap, drvUpdate, display, pc, call, ret, pre, hits, missed,
           flushes, life, shown>>

FieldCreateOf(I, T) ==
  \E id \in I, type \in T, leadZero \in BOOLEAN, got \in BOOLEAN :
    \E r \in {fieldCreate(fieldList, changed, id, 0, 0, type, FieldSize, leadZero, got)} :
      /\ fieldList' = r.list
      /\ changed' = r.changed
      /\ sbCall' = [op |-> "fieldCreate", args |-> <<id, 0, 0, type, FieldSize, leadZero>>,
                    ret |-> r.b]
      /\ fieldsWas' = fieldList
      /\ changedWas' = changed
      /\ UNCHANGED <<panel, clock, now, drawn, clockWas>>

\* the scoreboard object sb of the sketch
Sb == [list |-> fieldList, changed |-> changed, clock |-> clock]

\* the panel and the clock a cScoreboard call other than update() leaves alone
aside == <<config, bitmap, drvUpdate, pc, call, ret, pre, hits, missed, flushes,
           supplied, killOnDestruct, driverAlive, shown, now>>

\* a call of a cScoreboard method that leaves the scoreboard r
BoardCall(op, args, b, r) ==
  /\ steps' = steps + 1
  /\ fieldList' = r.list
  /\ changed' = r.changed
  /\ clock' = r.clock
  /\ sbCall' = [op |-> op, args |-> args, ret |-> b]
  /\ fieldsWas' = fieldList
  /\ clockWas' = clock
  /\ changedWas' = changed
  /\ UNCHANGED aside

\* a field method, which leaves r = [list, changed]
FieldCall(op, args, b, r) ==
  /\ BoardCall(op, args, b, [list |-> r.list, changed |-> r.changed, clock |-> clock])
  /\ UNCHANGED <<display, drawn>>

FieldSetLeadZero ==
  \E id \in Ids, state \in BOOLEAN :
    \E r \in {fieldSetLeadZero(fieldList, changed, id, state)} :
      FieldCall("fieldSetLeadZero", <<id, state>>, r.b, r)

FieldSetSize ==
  \E id \in Ids, size \in {1, FieldSize} :
    \E r \in {fieldSetSize(fieldList, changed, id, size)} :
      FieldCall("fieldSetSize", <<id, size>>, r.b, r)

FieldValueAddOf(D) ==
  \E id \in Ids, delta \in D :
    \E r \in {fieldValueAdd(fieldList, changed, id, delta)} :
      FieldCall("fieldValueAdd", <<id, delta>>, FALSE, r)

FieldSetValueOf(V) ==
  \E id \in Ids, v \in V :
    \E r \in {fieldSetValue(fieldList, changed, id, v)} :
      FieldCall("fieldSetValue", <<id, v>>, FALSE, r)

ClockCreateOf(L) ==
  \E fieldId \in Ids, limit \in L, countUp \in BOOLEAN :
    \E r \in {clockCreate(Sb, now, fieldId, u32(limit), countUp)} :
      /\ BoardCall("clockCreate", <<fieldId, limit, countUp>>, r.b, r.sb)
      /\ UNCHANGED <<display, drawn>>

ClockCreate == ClockCreateOf(Limits)

ClockStart ==
  \E fieldId \in Ids :
    /\ BoardCall("clockStart", <<fieldId>>, FALSE, clockStart(Sb, now, fieldId))
    /\ UNCHANGED <<display, drawn>>

ClockStop ==
  \E fieldId \in Ids :
    /\ BoardCall("clockStop", <<fieldId>>, FALSE, clockStop(Sb, now, fieldId))
    /\ UNCHANGED <<display, drawn>>

ClockToggle ==
  \E fieldId \in Ids :
    /\ BoardCall("clockToggle", <<fieldId>>, FALSE, clockToggle(Sb, now, fieldId))
    /\ UNCHANGED <<display, drawn>>

ClockReset ==
  \E fieldId \in Ids, maintainRunMode \in BOOLEAN :
    /\ BoardCall("clockReset", <<fieldId, maintainRunMode>>, FALSE,
                 clockReset(Sb, now, fieldId, maintainRunMode))
    /\ UNCHANGED <<display, drawn>>

\* cScoreboard::update(bForce): the text is drawn by MD_MAXPanel::drawText and
\* the panel updated by MD_MAXPanel::update()
BoardUpdate ==
  \E bForce \in BOOLEAN :
    \E r \in {Redraw(Sb, now, bForce)} :
      /\ BoardCall("update", <<bForce>>, r.redraw, r.sb)
      /\ drawn' = IF r.redraw THEN r.sb.list ELSE drawn
      /\ display' = IF r.redraw THEN bitmap ELSE display

\* millis() moves on by dt between two calls of the sketch
Advance ==
  \E dt \in Delays :
    /\ steps' = steps + 1
    /\ now' = Add32(now, u32(dt))
    /\ sbCall' = [op |-> "delay", args |-> <<dt>>, ret |-> FALSE]
    /\ UNCHANGED <<config, bitmap, drvUpdate, display, pc, call, ret, pre, hits, missed,
                   flushes, supplied, killOnDestruct, driverAlive, shown>>
    /\ fieldsWas' = fieldList
    /\ clockWas' = clock
    /\ changedWas' = changed
    /\ UNCHANGED <<fieldList, changed, clock, drawn>>

FieldCreate == FieldCreateOf(0 .. MaxId, {"NUMBER", "MMSS"})

ScoreInit == InitOn(SeqGeometries)

\* the scoreboard with field 0 created and given the value v, as the sketch
\* does, before (sb) and after (.sb of Redraw) an update()
OneField(v) ==
  LET made == fieldCreate(<<>>, FALSE, 0, 0, 0, "NUMBER", FieldSize, FALSE, TRUE)
      set  == fieldSetValue(made.list, made.changed, 0, v)
  IN  [list |-> set.list, changed |-> set.changed, clock |-> NoClocks]

\* the scoreboard as setup() leaves it: a time field 0 and a number field 1,
\* no field MaxId
TwoFields ==
  LET one == fieldCreate(<<>>, FALSE, 0, 0, 0, "MMSS", FieldSize, FALSE, TRUE)
      two == fieldCreate(one.list, one.changed, 1, 0, 0, "NUMBER", FieldSize, TRUE, TRUE)
  IN  [list |-> two.list, changed |-> two.changed, clock |-> NoClocks]

\* the sketch after setup(), on a panel of one module with no LED lit; sb is
\* the scoreboard, d what it has drawn
BoardSetup(sb, d) == Setup(SeqGeometries, {FALSE}, sb, u32(0), d) /\ bitmap = {}

\* setup() with its clockCreate on field 0
OneClock(limit, countUp) == clockCreate(TwoFields, u32(0), 0, u32(limit), countUp).sb

ShownInit == \E countUp \in BOOLEAN : BoardSetup(OneClock(MaxLimit, countUp), <<>>)

ShownNext ==
  \/ steps < ShownOps /\ FieldCreateOf({MaxId}, {"NUMBER"})
  \/ steps < ShownOps /\ FieldSetLeadZero
  \/ steps < ShownOps /\ FieldSetSize
  \/ steps < ShownOps /\ FieldValueAddOf(Steps)
  \/ steps < ShownOps /\ FieldSetValueOf({u32(0)})
  \/ steps < ShownOps /\ ClockCreateOf({MaxLimit})
  \/ steps < ShownOps /\ ClockStart
  \/ steps < ShownOps /\ ClockReset
  \/ steps < ShownOps /\ Advance
  \/ steps < ShownOps /\ BoardUpdate

ShownSpec == ShownInit /\ [][ShownNext]_vars

\* setup() after its fieldCreate calls, before any clockCreate
SlotInit == BoardSetup(TwoFields, <<>>)

SlotNext ==
  \/ steps < SlotOps /\ ClockCreate
  \/ steps < SlotOps /\ ClockStart
  \/ steps < SlotOps /\ Advance

SlotSpec == SlotInit /\ [][SlotNext]_vars

\* the sketch after setup(): its clock on field 0, counting up to or down from
\* a limit of at least 1
ClockInit ==
  \E limit \in Limits \ {0}, countUp \in BOOLEAN : BoardSetup(OneClock(limit, countUp), <<>>)

ClockNext ==
  \/ steps < ClockOps /\ ClockStart
  \/ steps < ClockOps /\ ClockStop
  \/ steps < ClockOps /\ ClockToggle
  \/ steps < ClockOps /\ ClockReset
  \/ steps < ClockOps /\ Advance
  \/ steps < ClockOps /\ BoardUpdate

ClockSpec == ClockInit /\ [][ClockNext]_vars

AddInit ==
  \E v \in Values, shownYet \in BOOLEAN :
    IF shownYet
    THEN BoardSetup(Redraw(OneField(v), u32(0), FALSE).sb, OneField(v).list)
    ELSE BoardSetup(OneField(v), <<>>)

\* one call of fieldValueAdd with any delta
FieldValueAdd == sbCall.op = "none" /\ FieldValueAddOf(Deltas)

AddNext == FieldValueAdd

AddSpec == AddInit /\ [][AddNext]_vars

ScoreNext == FieldCreate

ScoreSpec == ScoreInit /\ [][ScoreNext]_vars

\* The calls of a sketch that makes several one after another, on one module.
SeqPts == {1, 6}
SeqVertices == {<<1, 1>>, <<6, 1>>, <<1, 6>>}
SeqApex == <<6, 6>>

\* the call in hand returned and the sketch goes on to its next statement
Resume ==
  /\ pc = "done"
  /\ steps < MaxCalls
  /\ pc' = "idle"
  /\ steps' = steps + 1
  /\ call' = NoCall
  /\ ret' = FALSE
  /\ pre' = bitmap
  /\ shown' = display
  /\ hits' = {}
  /\ missed' = FALSE
  /\ flushes' = 0
  /\ UNCHANGED <<config, bitmap, drvUpdate, display,
                 supplied, killOnDestruct, driverAlive, board>>

\* MD_MAXPanel::update()
Update ==
  /\ pc = "idle"
  /\ \E r \in {[m |-> update(Ctx), b |-> TRUE]} :
       Finish("update", <<>>, FALSE, r)

\* MD_MAXPanel::~MD_MAXPanel
Destroy ==
  /\ pc \in {"idle", "done"}
  /\ pc' = "gone"
  /\ driverAlive' = Destructor(killOnDestruct, driverAlive)
  /\ UNCHANGED <<config, bitmap, drvUpdate, display, call, ret, pre, hits, missed,
                 flushes, supplied, killOnDestruct, steps, shown, board>>

SeqSetPoint ==
  /\ pc = "idle"
  /\ \E x, y \in SeqPts, state \in BOOLEAN :
       \E r \in {setPoint(Panel, Ctx, x, y, state)} :
         Finish("setPoint", <<x, y>>, state, r)

SeqHLine ==
  /\ pc = "idle"
  /\ \E y, x1, x2 \in SeqPts :
       \E r \in {drawHLine(Panel, updateEnabled, Ctx, y, x1, x2, TRUE)} :
         Finish("drawHLine", <<y, x1, x2>>, TRUE, r)

SeqVLine ==
  /\ pc = "idle"
  /\ \E x, y1, y2 \in SeqPts :
       \E r \in {drawVLine(Panel, updateEnabled, Ctx, x, y1, y2, TRUE)} :
         Finish("drawVLine", <<x, y1, y2>>, TRUE, r)

SeqLine ==
  /\ pc = "idle"
  /\ \E v1, v2 \in SeqVertices :
       \E r \in {drawLine(Panel, updateEnabled, Ctx, v1[1], v1[2], v2[1], v2[2], TRUE)} :
         Finish("drawLine", <<v1[1], v1[2], v2[1], v2[2]>>, TRUE, r)

SeqRectangle ==
  /\ pc = "idle"
  /\ \E v1, v2 \in SeqVertices :
       \E r \in {drawRectangle(Panel, updateEnabled, Ctx, v1[1], v1[2], v2[1], v2[2], TRUE)} :
         Finish("drawRectangle", <<v1[1], v1[2], v2[1], v2[2]>>, TRUE, r)

SeqTriangle ==
  /\ pc = "idle"
  /\ \E v1, v2 \in SeqVertices, v3 \in {SeqApex} :
       \E r \in {drawTriangle(Panel, updateEnabled, Ctx,
                              v1[1], v1[2], v2[1], v2[2], v3[1], v3[2], TRUE)} :
         Finish("drawTriangle", <<v1[1], v1[2], v2[1], v2[2], v3[1], v3[2]>>, TRUE, r)

SeqQuadrilateral ==
  /\ pc = "idle"
  /\ \E v1, v2 \in SeqVertices, v3 \in {SeqApex} :
       \E r \in {drawQuadrilateral(Panel, updateEnabled, Ctx, v1[1], v1[2], v2[1], v2[2],
                                   v3[1], v3[2], v1[2], v1[1], TRUE)} :
         Finish("drawQuadrilateral",
                <<v1[1], v1[2], v2[1], v2[2], v3[1], v3[2], v1[2], v1[1]>>, TRUE, r)

SeqCircle ==
  /\ pc = "idle"
  /\ \E xc, yc \in SeqPts, rad \in {0, Near} :
       \E r \in {drawCircle(Panel, updateEnabled, Ctx, xc, yc, rad, TRUE)} :
         Finish("drawCircle", <<xc, yc, rad>>, TRUE, r)

\* several calls made with buffered and with automatic updates
SeqInit == InitOn(SeqGeometries)

SeqNext ==
  \/ UpdateBool
  \/ Update
  \/ Resume
  \/ SeqSetPoint
  \/ SeqHLine
  \/ SeqVLine
  \/ SeqLine
  \/ SeqRectangle
  \/ SeqTriangle
  \/ SeqQuadrilateral
  \/ SeqCircle

SeqSpec == SeqInit /\ [][SeqNext]_vars

\* one drawing call on a panel whose flags and spacing were set beforehand
FrameInit == InitOn(SeqGeometries)

FrameNext ==
  \/ SetRotation
  \/ UpdateBool
  \/ SetCharSpacing
  \/ SeqHLine
  \/ SeqVLine
  \/ SeqLine
  \/ SeqRectangle
  \/ SeqTriangle
  \/ SeqQuadrilateral
  \/ SeqCircle

FrameSpec == FrameInit /\ [][FrameNext]_vars

\* the life of a panel made by either kind of constructor: calls, then the
\* destructor
LifeInit == Constructed(SeqGeometries, BOOLEAN)

LifeNext ==
  \/ Destroy
  \/ Update
  \/ Resume
  \/ SeqSetPoint
  \/ SeqHLine
  \/ SeqVLine
  \/ SeqLine
  \/ SeqRectangle
  \/ SeqTriangle
  \/ SeqQuadrilateral
  \/ SeqCircle

LifeSpec == LifeInit /\ [][LifeNext]_vars

TypeOK ==
  /\ <<xDevices, yDevices>> \in Geometries \cup TallGeometries \cup BigGeometries
  /\ rotatedDisplay \in BOOLEAN
  /\ updateEnabled \in BOOLEAN
  /\ drvUpdate \in BOOLEAN
  /\ bitmap \subseteq DrvCells(Panel)
  /\ display \subseteq DrvCells(Panel)
  /\ pc \in {"idle", "done", "hung", "gone"}
  /\ supplied \in BOOLEAN /\ killOnDestruct \in BOOLEAN /\ driverAlive \in BOOLEAN
  /\ steps \in Nat
  /\ shown \subseteq DrvCells(Panel)
  /\ changed \in BOOLEAN
  /\ charSpacing \in 0 .. UINT8_MOD - 1
  /\ Len(fieldList) <= MaxId + 1
  /\ ret \in BOOLEAN

-----------------------------------------------------------------------------
(* What the properties below read off a state in which a call was made *)

\* (x, y) is a point of the panel
InPanel(x, y) == x <= getXMax(Panel) /\ y <= getYMax(Panel)

\* the driver cell of the panel point q
Cell(q) == <<Y2Row(Panel, q[1], q[2]), X2Col(Panel, q[1], q[2])>>

\* the context the call was made on
Before == [Ctx EXCEPT !.bm = pre]

\* the buffer the call was made on with exactly the points pts put to call.state
Painted(pts) ==
  IF call.state THEN pre \cup {Cell(q) : q \in pts} ELSE pre \ {Cell(q) : q \in pts}

Drawn(op) == pc = "done" /\ call.op = op

-----------------------------------------------------------------------------
(* 8. Properties *)

\* C1: on every geometry and in both rotation modes, setPoint(x, y, state) on an
\* in-range point returns true and getPoint(x, y) then returns state; from there
\* setPoint(x, y, true) returns true and getPoint(x, y) returns true, and
\* setPoint(x, y, false) returns true and getPoint(x, y) returns false.
C1_RoundTrip ==
  (Drawn("setPoint") /\ InPanel(call.args[1], call.args[2])) =>
    LET x   == call.args[1]
        y   == call.args[2]
        on  == setPoint(Panel, Ctx, x, y, TRUE)
        off == setPoint(Panel, on.m, x, y, FALSE)
    IN  /\ ret
        /\ getPoint(Panel, Ctx, x, y).b = call.state
        /\ on.b /\ getPoint(Panel, on.m, x, y).b
        /\ off.b /\ ~getPoint(Panel, off.m, x, y).b

\* a lit pixel of a rotated, oblong panel was cleared
C1_Witness ==
  /\ Drawn("setPoint") /\ InPanel(call.args[1], call.args[2])
  /\ rotatedDisplay /\ xDevices # yDevices
  /\ ~call.state /\ bitmap # pre /\ ret

\* C2: with x > getXMax() or y > getYMax(), setPoint and getPoint return false,
\* hand no point to the driver, and leave the driver's buffer and the LEDs alone.
C2_OutOfRange ==
  ((Drawn("setPoint") \/ Drawn("getPoint")) /\ ~InPanel(call.args[1], call.args[2])) =>
    /\ ~ret
    /\ hits = {}
    /\ bitmap = pre
    /\ flushes = 0

\* setPoint(x, getYMax() + 1, true) with x in range
C2_Witness ==
  /\ Drawn("setPoint") /\ call.state
  /\ call.args[1] <= getXMax(Panel) /\ call.args[2] = getYMax(Panel) + 1
  /\ ~ret /\ missed

\* the outline of the rectangle with corners (x1, y1) and (x2, y2)
Perimeter(x1, y1, x2, y2) ==
  {<<i, y>> : i \in Min(x1, x2) .. Max(x1, x2), y \in {y1, y2}}
    \cup {<<x, j>> : x \in {x1, x2}, j \in Min(y1, y2) .. Max(y1, y2)}

\* C3: drawLine, drawRectangle, drawTriangle and drawQuadrilateral return, with
\* true exactly when no pixel write they attempted was out of range, and every
\* in-range pixel of the shape is written whatever they return.
C3_ReturnAndDraw ==
  (pc # "idle" /\ call.op \in {"drawLine", "drawRectangle", "drawTriangle",
                               "drawQuadrilateral"}) =>
    /\ pc = "done"
    /\ ret <=> ~missed
    /\ call.op = "drawRectangle" =>
         \A q \in Perimeter(call.args[1], call.args[2], call.args[3], call.args[4]) :
            InPanel(q[1], q[2]) => q \in hits

\* C4: drawCircle returns true when every point it plots is inside the display
\* and false when some plotted point is outside.
C4_ReturnValue == Drawn("drawCircle") => (ret <=> ~missed)

\* C5: with y in range and any x1, x2, drawHLine(y, x1, x2, state) returns, having
\* put exactly the in-range points (i, y), min(x1, x2) <= i <= max(x1, x2), to
\* state and changed nothing else, and returns false exactly when
\* max(x1, x2) > getXMax().
C5_HLine ==
  (pc # "idle" /\ call.op = "drawHLine" /\ call.args[1] <= getYMax(Panel)) =>
    LET y   == call.args[1]
        lo  == Min(call.args[2], call.args[3])
        hi  == Max(call.args[2], call.args[3])
        pts == {<<i, y>> : i \in lo .. Min(hi, getXMax(Panel))}
    IN  /\ pc = "done"
        /\ hits = pts
        /\ bitmap = Painted(pts)
        /\ ~ret <=> hi > getXMax(Panel)

\* C6: on every geometry, with x in range and y1, y2 in 0 .. getYMax() in either
\* order, drawVLine(x, y1, y2, state) returns true, having put exactly the points
\* (x, i), min(y1, y2) <= i <= max(y1, y2), to state and changed nothing else.
C6_VLine ==
  (pc # "idle" /\ call.op = "drawVLine"
     /\ InPanel(call.args[1], call.args[2]) /\ InPanel(call.args[1], call.args[3])) =>
    LET x   == call.args[1]
        pts == {<<x, i>> : i \in Min(call.args[2], call.args[3])
                                   .. Max(call.args[2], call.args[3])}
    IN  /\ pc = "done"
        /\ ret
        /\ hits = pts
        /\ bitmap = Painted(pts)

\* C7: with both end points in the panel, drawLine(x2, y2, x1, y1) made on the
\* same buffer returns the same value and leaves the same buffer, and writes the
\* same points, as drawLine(x1, y1, x2, y2); vertical and horizontal lines too.
C7_Symmetry ==
  (Drawn("drawLine") /\ InPanel(call.args[1], call.args[2])
                     /\ InPanel(call.args[3], call.args[4])) =>
    LET rev == drawLine(Panel, updateEnabled, Before, call.args[3], call.args[4],
                        call.args[1], call.args[2], call.state)
    IN  /\ ~rev.m.hang
        /\ rev.b = ret
        /\ rev.m.bm = bitmap
        /\ rev.m.hits = hits

\* a vertical line drawn downwards, which drawLine does not swap
C7_Witness ==
  /\ Drawn("drawLine") /\ InPanel(call.args[1], call.args[2])
  /\ call.args[1] = call.args[3] /\ call.args[2] > call.args[4] + 1
  /\ call.state /\ bitmap # pre

\* C8: drawRectangle(x1, y1, x2, y2, state) leaves the buffer that the calls
\* drawHLine(y1, x1, x2), drawHLine(y2, x1, x2), drawVLine(x1, y1, y2) and
\* drawVLine(x2, y1, y2), made one after the other with the same state, leave;
\* it writes the points they write and returns the AND of what they return.
C8_FourLines ==
  (pc # "idle" /\ call.op = "drawRectangle") =>
    LET x1 == call.args[1]
        y1 == call.args[2]
        x2 == call.args[3]
        y2 == call.args[4]
        h1 == drawHLine(Panel, updateEnabled, Before, y1, x1, x2, call.state)
        h2 == drawHLine(Panel, updateEnabled, h1.m, y2, x1, x2, call.state)
        v1 == drawVLine(Panel, updateEnabled, h2.m, x1, y1, y2, call.state)
        v2 == drawVLine(Panel, updateEnabled, v1.m, x2, y1, y2, call.state)
    IN  /\ bitmap = v2.m.bm
        /\ hits = v2.m.hits
        /\ (pc = "hung") = v2.m.hang
        /\ pc = "done" => (ret = (h1.b /\ h2.b /\ v1.b /\ v2.b))

\* a rectangle inside the panel given from its right-hand bottom corner
C8_Witness ==
  /\ Drawn("drawRectangle") /\ ret
  /\ call.args[1] > call.args[3] /\ call.args[2] < call.args[4]
  /\ call.state /\ Cardinality(hits) >= 8

\* the points drawLine writes for the edge from vertex i to vertex j of the call
Edge(i, j) ==
  drawLine(Panel, updateEnabled, Before, call.args[(2 * i) - 1], call.args[2 * i],
           call.args[(2 * j) - 1], call.args[2 * j], call.state).m.hits

\* C9: drawTriangle writes exactly the points drawLine writes for the edges
\* (v1, v2), (v2, v3), (v3, v1) and drawQuadrilateral those for (v1, v2), (v2, v3),
\* (v3, v4), (v4, v1); every in-range vertex is written and no other pixel changes.
C9_Outline ==
  (Drawn("drawTriangle") \/ Drawn("drawQuadrilateral")) =>
    LET n   == Len(call.args) \div 2
        pts == UNION {Edge(i, (i % n) + 1) : i \in 1 .. n}
    IN  /\ hits = pts
        /\ bitmap = Painted(pts)
        /\ \A i \in 1 .. n :
             InPanel(call.args[(2 * i) - 1], call.args[2 * i]) =>
               <<call.args[(2 * i) - 1], call.args[2 * i]>> \in hits

\* a triangle with its three vertices apart and inside the panel
C9_Witness ==
  /\ Drawn("drawTriangle") /\ ret /\ call.state
  /\ Cardinality({<<call.args[1], call.args[2]>>, <<call.args[3], call.args[4]>>,
                  <<call.args[5], call.args[6]>>}) = 3
  /\ Cardinality(hits) >= 6

\* the eight reflections of the offset (dx, dy) about the centre (xc, yc)
Reflections(xc, yc, dx, dy) ==
  {<<xc + sx * d[1], yc + sy * d[2]>> :
     sx \in {-1, 1}, sy \in {-1, 1}, d \in {<<dx, dy>>, <<dy, dx>>}}

\* C10: whenever drawCircle(xc, yc, r) writes the pixel at offset (dx, dy) from
\* the centre, it writes every in-range one of the pixels at (+-dx, +-dy) and
\* (+-dy, +-dx) from the centre, and those pixels carry the state.
C10_EightWay ==
  Drawn("drawCircle") =>
    /\ \A h \in hits :
         \A q \in Reflections(call.args[1], call.args[2],
                              h[1] - call.args[1], h[2] - call.args[2]) :
            (q[1] >= 0 /\ q[2] >= 0 /\ InPanel(q[1], q[2])) => q \in hits
    /\ bitmap = Painted(hits)

\* a circle of radius 2 or more wholly inside the panel
C10_Witness ==
  /\ Drawn("drawCircle") /\ ~missed /\ call.state
  /\ call.args[3] >= 2 /\ Cardinality(hits) >= 12

\* the offsets (x, y) of the midpoint recurrence from (x, y, pk) on
RECURSIVE Midpoint(_, _, _)
Midpoint(x, y, pk) ==
  {<<x, y>>} \cup
    (IF x >= y THEN {}
     ELSE IF pk <= 0 THEN Midpoint(x + 1, y, pk + (4 * x) + 6)
     ELSE Midpoint(x + 1, y - 1, pk + (4 * (x - y)) + 10))

\* the in-range points among the eight reflections of the offsets offs
Closure(xc, yc, offs) ==
  {q \in UNION {Reflections(xc, yc, o[1], o[2]) : o \in offs} :
     q[1] >= 0 /\ q[2] >= 0 /\ InPanel(q[1], q[2])}

\* C11: drawCircle(xc, yc, r) writes exactly the eight reflections of the offsets
\* of the midpoint recurrence from x = 0, y = r, pk = 3 - 2r, which takes at most
\* r steps; drawCircle(16, 16, 5) writes the closure of (0,5), (1,5), (2,5),
\* (3,4), and a circle of radius 0 its centre alone.
C11_Midpoint ==
  Drawn("drawCircle") =>
    LET xc   == call.args[1]
        yc   == call.args[2]
        rad  == call.args[3]
        offs == Midpoint(0, rad, 3 - (2 * rad))
    IN  /\ hits = Closure(xc, yc, offs)
        /\ bitmap = Painted(Closure(xc, yc, offs))
        /\ Cardinality(offs) <= rad + 1
        /\ \A o \in offs : o[1] <= o[2] + 1
        /\ call.args = <<16, 16, 5>> =>
             hits = Closure(16, 16, {<<0, 5>>, <<1, 5>>, <<2, 5>>, <<3, 4>>})
        /\ (rad = 0 /\ InPanel(xc, yc)) => hits = {<<xc, yc>>}

\* drawCircle(16, 16, 5) on a cleared panel
C11_Witness ==
  /\ Drawn("drawCircle") /\ call.args = <<16, 16, 5>> /\ call.state
  /\ pre = {} /\ Cardinality(bitmap) = 28

\* C12: unrotated, getXMax() = xDevices*8 - 1 and getYMax() = yDevices*8 - 1;
\* rotated, the two are swapped; in both modes (getXMax()+1) * (getYMax()+1) is
\* the number of LEDs of the chain.
C12_Extent ==
  /\ getXMax(Panel) = (IF rotatedDisplay THEN yDevices ELSE xDevices) * 8 - 1
  /\ getYMax(Panel) = (IF rotatedDisplay THEN xDevices ELSE yDevices) * 8 - 1
  /\ (getXMax(Panel) + 1) * (getYMax(Panel) + 1) = xDevices * yDevices * 64
  /\ (getXMax(Panel) + 1) * (getYMax(Panel) + 1) = Cardinality(DrvCells(Panel))
  /\ (pc = "done" /\ hits # {}) =>
       \A q \in hits : q[1] <= (IF rotatedDisplay THEN yDevices ELSE xDevices) * 8 - 1
                    /\ q[2] <= (IF rotatedDisplay THEN xDevices ELSE yDevices) * 8 - 1

\* a rotated oblong panel whose far corner was written
C12_Witness ==
  /\ rotatedDisplay /\ xDevices > yDevices
  /\ Drawn("setPoint") /\ ret
  /\ call.args = <<(yDevices * 8) - 1, (xDevices * 8) - 1>>

\* the panel of this device grid mounted unrotated
Unrotated == [Panel EXCEPT !.rot = FALSE]

\* C13: on a cleared buffer, drawHLine(y, 0, getXMax()) on the rotated panel sets
\* the driver cells that drawVLine(y, 0, getYMax()) sets on the unrotated panel
\* of the same device grid, and the rotated point (x, y) has the driver cell of
\* the unrotated point (y, yDevices*8 - 1 - x).
C13_Rotation ==
  (Drawn("drawHLine") /\ rotatedDisplay /\ call.state /\ pre = {}
     /\ call.args[1] <= getYMax(Panel)
     /\ call.args[2] = 0 /\ call.args[3] = getXMax(Panel)) =>
    LET v == drawVLine(Unrotated, updateEnabled, Before, call.args[1], 0,
                       getYMax(Unrotated), TRUE)
    IN  /\ \A q \in hits :
             Cell(q) = <<Y2Row(Unrotated, q[2], (yDevices * 8) - 1 - q[1]),
                         X2Col(Unrotated, q[2], (yDevices * 8) - 1 - q[1])>>
        /\ ~v.m.hang
        /\ v.m.bm = bitmap


\* the operations that draw one straight line or one circle, and those that
\* draw an outline out of lines
Simple == {"drawHLine", "drawVLine", "drawLine", "drawCircle"}
Composite == {"drawRectangle", "drawTriangle", "drawQuadrilateral"}

\* the call in hand has run as far as it ever will
Ran(ops) == pc \in {"done", "hung"} /\ call.op \in ops

\* C15: with auto-update enabled, one drawRectangle, drawTriangle or
\* drawQuadrilateral that returned has flushed the driver exactly once, so the
\* display never showed a part of the shape.
C15_SingleUpdate ==
  (Ran(Composite) /\ pc = "done" /\ updateEnabled) =>
    /\ flushes = 1
    /\ display = bitmap

\* C16: with auto-update enabled, one drawHLine, drawVLine, drawLine or
\* drawCircle writes all its points with redraw disabled and then re-enables and
\* flushes the driver exactly once.
C16_OneFlush ==
  (Ran(Simple) /\ updateEnabled) =>
    /\ pc = "done"
    /\ flushes = 1
    /\ drvUpdate
    /\ display = bitmap

\* C17: every rasterization call terminates whatever its 16-bit arguments are,
\* and a straight line touches at most max(|x2-x1|, |y2-y1|) + 1 points.
C17_Terminates ==
  Ran(Simple \cup Composite) =>
    /\ pc = "done"
    /\ call.op \in {"drawHLine", "drawVLine"} =>
         Cardinality(hits) <= Max(call.args[3] - call.args[2], call.args[2] - call.args[3]) + 1
    /\ call.op = "drawLine" =>
         Cardinality(hits) <= Max(Max(call.args[3] - call.args[1], call.args[1] - call.args[3]),
                                  Max(call.args[4] - call.args[2], call.args[2] - call.args[4])) + 1

\* a step in which the sketch makes the call op .. and the call runs
Calls(ops) == pc = "idle" /\ pc' \in {"done", "hung"} /\ call'.op \in ops

\* C14: while the auto-update flag is false (update(false) was the last
\* update(bool)), no setPoint or draw* call, at any place of a sequence of calls,
\* flushes the driver or re-enables its redraw, so the display stays as it was;
\* update() then shows the whole buffer and leaves the flag false.
C14_Buffered ==
  [][/\ (~updateEnabled /\ Calls({"setPoint"} \cup Simple \cup Composite)) =>
          /\ display' = display
          /\ ~drvUpdate'
          /\ flushes' = 0
          /\ ~updateEnabled'
     /\ (~updateEnabled /\ Calls({"update"})) =>
          /\ pc' = "done"
          /\ display' = bitmap
          /\ bitmap' = bitmap
          /\ ~updateEnabled'
          /\ ~drvUpdate']_vars

C14_Witness ==
  /\ Drawn("update")
  /\ ~updateEnabled
  /\ steps >= 1
  /\ shown # display
  /\ display = bitmap

\* C19: destroying the panel deletes the driver exactly when the constructor
\* made it; a driver the caller supplied outlives the panel whatever calls were
\* made before, and no call deletes the driver while the panel lives.
C19_Ownership ==
  /\ pc = "gone" => (driverAlive <=> supplied)
  /\ pc # "gone" => driverAlive

C19_Witness ==
  /\ pc = "gone"
  /\ supplied
  /\ driverAlive
  /\ steps >= 1
  /\ call.op \in Composite
  /\ bitmap # pre

\* C18: on every panel, clear(x1, y1, x2, y2) with both corners in the panel and
\* x1 <= x2 returns, turns off every point of the rectangle and leaves every
\* other point as it was.
C18_Clear ==
  (Ran({"clear"}) /\ InPanel(call.args[1], call.args[2])
     /\ InPanel(call.args[3], call.args[4]) /\ call.args[1] <= call.args[3]) =>
    /\ pc = "done"
    /\ bitmap = Painted({<<x, y>> : x \in call.args[1] .. call.args[3],
                                    y \in Min(call.args[2], call.args[4])
                                            .. Max(call.args[2], call.args[4])})

\* C20: fieldCreate(id, ...) returns true exactly when it added a field, which
\* it does only if no field had that id; when one had, the list is unchanged.
C20_FieldCreate ==
  sbCall.op = "fieldCreate" =>
    /\ sbCall.ret <=> (fieldList # fieldsWas)
    /\ sbCall.ret => (findField(fieldsWas, sbCall.args[1]) = 0
                        /\ Len(fieldList) = Len(fieldsWas) + 1
                        /\ fieldList[1].id = sbCall.args[1])
    /\ findField(fieldsWas, sbCall.args[1]) # 0 => fieldList = fieldsWas

\* the absolute value
Abs(v) == IF v < 0 THEN -v ELSE v

\* C25: with both end points in the panel, drawLine returns true after it has
\* plotted exactly max(|x2-x1|, |y2-y1|) + 1 points, all of them in the bounding
\* box of the end points: the walk starts at the end point of lower x, ends at
\* the other, and every point but the last has a next one that is 0 or 1
\* further in x and at most 1 further in y towards the end, never the same.
C25_Walk ==
  (Ran({"drawLine"}) /\ InPanel(call.args[1], call.args[2])
                     /\ InPanel(call.args[3], call.args[4])) =>
    LET sw   == call.args[1] > call.args[3]
        from == IF sw THEN <<call.args[3], call.args[4]>> ELSE <<call.args[1], call.args[2]>>
        to   == IF sw THEN <<call.args[1], call.args[2]>> ELSE <<call.args[3], call.args[4]>>
        sy   == IF from[2] < to[2] THEN 1 ELSE -1
    IN  /\ pc = "done"
        /\ ret
        /\ ~missed
        /\ Cardinality(hits) = Max(to[1] - from[1], Abs(to[2] - from[2])) + 1
        /\ from \in hits
        /\ to \in hits
        /\ \A q \in hits : /\ from[1] <= q[1] /\ q[1] <= to[1]
                           /\ Min(from[2], to[2]) <= q[2] /\ q[2] <= Max(from[2], to[2])
        /\ \A q \in hits \ {to} :
             \E n \in hits : /\ n # q
                             /\ n[1] - q[1] \in {0, 1}
                             /\ (n[2] - q[2]) * sy \in {0, 1}

\* a sloping line of more than two points, drawn from its end of higher x
C25_Witness ==
  /\ Drawn("drawLine") /\ InPanel(call.args[1], call.args[2])
  /\ call.args[1] > call.args[3] + 2
  /\ call.args[2] < call.args[4] /\ call.args[4] < call.args[1]
  /\ call.state /\ pre = {} /\ Cardinality(bitmap) = call.args[1] - call.args[3] + 1

\* every point of the panel
Points == (0 .. getXMax(Panel)) \X (0 .. getYMax(Panel))

\* C26: in both rotations (Y2Row, X2Col) sends the points of the panel to
\* different cells, all of them in rows 0..7 and columns 0..xDevices*yDevices*8-1,
\* so a setPoint on a point of the panel, which changes no cell but its own,
\* changes what getPoint returns at no other point.
C26_Injective ==
  (Drawn("setPoint") /\ InPanel(call.args[1], call.args[2])) =>
    LET at == <<call.args[1], call.args[2]>>
    IN  /\ Cell(at)[1] \in 0 .. 7
        /\ Cell(at)[2] \in 0 .. (xDevices * yDevices * 8) - 1
        /\ \A q \in Points \ {at} : Cell(q) # Cell(at)
        /\ bitmap \ {Cell(at)} = pre \ {Cell(at)}

\* a point of a rotated, oblong panel was lit among the stripes
C26_Witness ==
  /\ Drawn("setPoint") /\ InPanel(call.args[1], call.args[2])
  /\ rotatedDisplay /\ xDevices < yDevices
  /\ call.args[1] > ROW_SIZE /\ call.args[2] > 0
  /\ call.state /\ pre # {} /\ bitmap # pre

C30_ValueAdd ==
  sbCall.op = "fieldValueAdd" =>
    LET f   == findField(fieldsWas, sbCall.args[1])
        low == fieldsWas[f].value[2] + sbCall.args[2]
        top == fieldsWas[f].value[1] + (low \div UINT16_MOD)
    IN  IF f = 0
        THEN fieldList = fieldsWas /\ changed = changedWas
        ELSE top < UINT16_MOD =>
               /\ changed
               /\ fieldList = [fieldsWas EXCEPT ![f].value =
                                 IF top < 0 THEN <<0, 0>> ELSE <<top, low % UINT16_MOD>>]

\* a negative delta larger than the positive value of the field was given
C30_Witness ==
  /\ sbCall.op = "fieldValueAdd"
  /\ findField(fieldsWas, sbCall.args[1]) # 0
  /\ sbCall.args[2] < -1
  /\ fieldsWas[1].value = <<0, 1>>
  /\ fieldList[1].value = <<0, 0>>

\* C28: while _changed is false, every field (its value, size, type and
\* leadZero, and the list itself) is what update() drew at its last redraw;
\* and a step that clears _changed is a call of update().
C28_NoLostUpdate ==
  /\ ~changed => drawn = fieldList
  /\ changedWas /\ ~changed => sbCall.op = "update"

\* a running clock ticked inside update(), which drew the new value
C28_Witness ==
  /\ sbCall.op = "update"
  /\ ~changed
  /\ \E i \in 0 .. MAX_CLOCKS - 1 : clock[i].used /\ clock[i].timeLast = now /\ now # u32(0)
  /\ drawn = fieldList
  /\ fieldList # fieldsWas

\* the clock slots in use
Used(clk) == {i \in 0 .. MAX_CLOCKS - 1 : clk[i].used}

\* C22: clockCreate returns false, and leaves every slot and every field as it
\* was, when all MAX_CLOCKS slots are in use or no field has the id; otherwise
\* it returns true and the slots in use are those in use before and one more.
C22_ClockCreate ==
  sbCall.op = "clockCreate" =>
    IF Used(clockWas) = 0 .. MAX_CLOCKS - 1 \/ findField(fieldsWas, sbCall.args[1]) = 0
    THEN ~sbCall.ret /\ clock = clockWas /\ fieldList = fieldsWas
    ELSE /\ sbCall.ret
         /\ Used(clockWas) \subseteq Used(clock)
         /\ Cardinality(Used(clock)) = Cardinality(Used(clockWas)) + 1
         /\ Cardinality(Used(clock)) <= MAX_CLOCKS

\* clockCreate was refused with every slot in use, and a clockCreate took the
\* last empty slot
C22_Witness ==
  /\ sbCall.op = "clockCreate"
  /\ Used(clock) = 0 .. MAX_CLOCKS - 1
  /\ findField(fieldsWas, sbCall.args[1]) # 0
  /\ ~sbCall.ret
  /\ Used(clockWas) = 0 .. MAX_CLOCKS - 1

\* C23: when clockCreate returns true, the clock in the slot it took is
\* stopped with timeToGo = CLOCK_PERIOD, and the field holds 0 for a count-up
\* clock and the limit for a count-down one.
C23_NewClock ==
  sbCall.op = "clockCreate" /\ sbCall.ret =>
    \A i \in Used(clock) \ Used(clockWas) :
      /\ clock[i].stopped
      /\ clock[i].timeToGo = u32(CLOCK_PERIOD)
      /\ fieldList[findField(fieldList, sbCall.args[1])].value =
           IF sbCall.args[3] THEN u32(0) ELSE u32(sbCall.args[2])

\* the value of the field of the clock in slot i
ClockValue(i) == fieldList[findField(fieldList, clock[i].f)].value

\* C21: the value of a clock's field is never above the clock's limit (and so
\* never wraps below 0).
C21_InRange ==
  \A i \in Used(clock) : Le32(ClockValue(i), clock[i].timeLimit)

\* C24: clockReset(fieldId, maintainRunMode) on the clock of the field sets
\* the field to 0 (count-up) or the limit (count-down) and timeToGo to
\* CLOCK_PERIOD; without maintainRunMode the clock is stopped, with it the
\* clock runs or not as before and a running clock ticks next exactly one
\* CLOCK_PERIOD after the reset; with an id no clock has nothing changes.
C24_Reset ==
  sbCall.op = "clockReset" =>
    LET i == findClock(clockWas, sbCall.args[1])
    IN  IF i = -1
        THEN clock = clockWas /\ fieldList = fieldsWas /\ changed = changedWas
        ELSE /\ ClockValue(i) = IF clock[i].countUp THEN u32(0) ELSE clock[i].timeLimit
             /\ clock[i].timeToGo = u32(CLOCK_PERIOD)
             /\ \A j \in 0 .. MAX_CLOCKS - 1 : j # i => clock[j] = clockWas[j]
             /\ IF sbCall.args[2]
                THEN /\ clock[i].stopped = clockWas[i].stopped
                     /\ ~clock[i].stopped =>
                          /\ ProcessClock(Sb, Add32(now, u32(CLOCK_PERIOD - 1)), i) = Sb
                          /\ ProcessClock(Sb, Add32(now, u32(CLOCK_PERIOD)), i) # Sb
                ELSE clock[i].stopped

\* a running clock half way through its period was reset and kept running
C24_Witness ==
  /\ sbCall.op = "clockReset"
  /\ sbCall.args = <<0, TRUE>>
  /\ ~clock[0].stopped
  /\ clockWas[0].timeLast # now
  /\ clock[0].timeLast = now
  /\ fieldList # fieldsWas

\* C29: the timeToGo of every clock is in 1 .. CLOCK_PERIOD.
C29_TimeToGo ==
  \A i \in Used(clock) :
    Le32(u32(1), clock[i].timeToGo) /\ Le32(clock[i].timeToGo, u32(CLOCK_PERIOD))

==============================================================================
